---- MODULE Spec2Model ----
(***************************************************************************)
(* Job lifecycle controller of DODAS-TS/batchspawner.                      *)
(*                                                                         *)
(* Two concrete controllers are modelled, selected by `variant`:           *)
(*   "base"   - RemoteSlurmSpawner of src/batchspawner/remote_slurm.py,    *)
(*              which inherits start/stop/poll/submit/query/cancel from    *)
(*              BatchSpawnerBase and runs commands as local subprocesses;  *)
(*   "remote" - RemoteSlurmSpawner of                                      *)
(*              src/remote_slurm_spawner/remote_slurm_spawner.py, which    *)
(*              overrides start/stop/submit/query (paramiko + ssh tunnel). *)
(*                                                                         *)
(* Python strings are modelled as sequences of one-character strings, so   *)
(* that the string surgery of the code (strip, replace, split, repr of     *)
(* bytes and lists, regular-expression search) is computed, not assumed.   *)
(* The empty Python string "" is the empty sequence <<>>.                  *)
(***************************************************************************)
EXTENDS Integers, Sequences, FiniteSets, TLC

VARIABLES
    variant,     \* which controller class is running (fixed per behaviour)
    cfg,         \* configured state_*_re patterns (fixed per behaviour)
    job_id,      \* BatchSpawnerBase.job_id
    job_status,  \* BatchSpawnerBase.job_status
    ip,          \* Spawner.ip
    port,        \* Spawner.port (an integer, 0 = unassigned)
    pc,          \* position of the running coroutine, "idle" between calls
    loop_i,      \* the `_` of `for _ in range(10)` in stop
    op,          \* history of the call in progress / last call (see NewOp)
    ret,         \* how the last call ended (see Returned / Raised)
    prog,        \* last message of the progress() generator of this spawn
    other        \* the last step was one of another controller's coroutines

vars == <<variant, cfg, job_id, job_status, ip, port, pc, loop_i, op, ret, prog, other>>

----------------------------------------------------------------------------
(* Python string primitives on character sequences.                        *)

Min(S) == CHOOSE x \in S : \A y \in S : x <= y

Max(S) == CHOOSE x \in S : \A y \in S : x >= y

IsPrefix(p, s) == Len(p) <= Len(s) /\ SubSeq(s, 1, Len(p)) = p

\* str.find(sub) + 1: index of the first occurrence of sub in s, 0 if none
Find(s, sub) ==
    LET idx == {i \in 1..(Len(s) - Len(sub) + 1) : SubSeq(s, i, i + Len(sub) - 1) = sub}
    IN  IF idx = {} THEN 0 ELSE Min(idx)

\* s.replace(sub, ""): left to right, non-overlapping
RECURSIVE RemoveAll(_, _)
RemoveAll(s, sub) ==
    LET i == Find(s, sub)
    IN  IF i = 0 THEN s
        ELSE SubSeq(s, 1, i - 1) \o RemoveAll(SubSeq(s, i + Len(sub), Len(s)), sub)

\* s.split(sep)[0]
SplitFirst(s, sep) ==
    LET i == Find(s, sep) IN IF i = 0 THEN s ELSE SubSeq(s, 1, i - 1)

\* s.strip(chars): drop leading and trailing characters that are in chars
Strip(s, chars) ==
    LET keep == {i \in 1..Len(s) : s[i] \notin chars}
    IN  IF keep = {} THEN <<>> ELSE SubSeq(s, Min(keep), Max(keep))

Whitespace == {" ", "\n", "\t", "\r"}

Digits == {"0", "1", "2", "3", "4", "5", "6", "7", "8", "9"}

\* s.splitlines() is empty exactly for the empty string ([-1] raises IndexError)
HasLines(s) == s # <<>>

\* s.splitlines()[-1] for a string with HasLines(s): a final newline ends the
\* last line, it does not start an empty one
LastLine(s) ==
    LET t  == IF s[Len(s)] = "\n" THEN SubSeq(s, 1, Len(s) - 1) ELSE s
        nl == {i \in 1..Len(t) : t[i] = "\n"}
    IN  IF nl = {} THEN t ELSE SubSeq(t, Max(nl) + 1, Len(t))

\* int(s) succeeds: optional surrounding whitespace, optional sign, digits
IsInt(s) ==
    LET t == Strip(s, Whitespace)
        u == IF t # <<>> /\ t[1] \in {"+", "-"} THEN Tail(t) ELSE t
    IN  u # <<>> /\ \A i \in 1..Len(u) : u[i] \in Digits

\* the escapes repr() applies to the characters that occur in the model
RECURSIVE Escape(_)
Escape(s) ==
    IF s = <<>> THEN <<>>
    ELSE (IF Head(s) = "\n" THEN <<"\\", "n">> ELSE <<Head(s)>>) \o Escape(Tail(s))

\* str(b) of a bytes object b: b'...'
BytesRepr(b) == <<"b", "'">> \o Escape(b) \o <<"'">>

\* str(l) of a list l of strings: ['...', '...']
RECURSIVE ListItems(_)
ListItems(l) ==
    IF l = <<>> THEN <<>>
    ELSE <<"'">> \o Escape(Head(l)) \o <<"'">>
         \o (IF Len(l) > 1 THEN <<",", " ">> ELSE <<>>) \o ListItems(Tail(l))

ListRepr(l) == <<"[">> \o ListItems(l) \o <<"]">>

\* "\n".join-free view of a local subprocess' stdout: the lines as written
RECURSIVE Concat(_)
Concat(l) == IF l = <<>> THEN <<>> ELSE Head(l) \o Concat(Tail(l))

----------------------------------------------------------------------------
(* The strings of the model.                                               *)

S_PENDING     == <<"P", "E", "N", "D", "I", "N", "G">>
S_CONFIGURING == <<"C", "O", "N", "F", "I", "G", "U", "R", "I", "N", "G">>
S_RUNNING     == <<"R", "U", "N", "N", "I", "N", "G">>
S_COMPLETING  == <<"C", "O", "M", "P", "L", "E", "T", "I", "N", "G">>
S_COMPLETED   == <<"C", "O", "M", "P", "L", "E", "T", "E", "D">>

\* "slurm_load_jobs error: "
S_LOADERR ==
    <<"s", "l", "u", "r", "m", "_", "l", "o", "a", "d", "_", "j", "o", "b", "s",
      " ", "e", "r", "r", "o", "r", ":", " ">>

\* "Socket timed out on send/recv"
S_SOCKET ==
    <<"S", "o", "c", "k", "e", "t", " ", "t", "i", "m", "e", "d", " ", "o", "u",
      "t", " ", "o", "n", " ", "s", "e", "n", "d", "/", "r", "e", "c", "v">>

\* "Unable to contact slurm controller"
S_UNABLE ==
    <<"U", "n", "a", "b", "l", "e", " ", "t", "o", " ", "c", "o", "n", "t", "a",
      "c", "t", " ", "s", "l", "u", "r", "m", " ", "c", "o", "n", "t", "r", "o",
      "l", "l", "e", "r">>

\* "Invalid job id specified"
S_INVALID ==
    <<"I", "n", "v", "a", "l", "i", "d", " ", "j", "o", "b", " ", "i", "d", " ",
      "s", "p", "e", "c", "i", "f", "i", "e", "d">>

S_NA    == <<"n", "/", "a">>
S_C1    == <<"c", "1">>
S_NODE1 == <<"n", "o", "d", "e", "1">>
SP      == <<" ">>
NL      == <<"\n">>

S_209 == <<"2", "0", "9">>

\* "Submitted batch job 209"
S_SUBMITTED_209 ==
    <<"S", "u", "b", "m", "i", "t", "t", "e", "d", " ", "b", "a", "t", "c", "h",
      " ", "j", "o", "b", " ">> \o S_209

\* "209;hpc"
S_209_HPC == S_209 \o <<";", "h", "p", "c">>

\* "sbatch: lua: ok"
S_LUA_OK ==
    <<"s", "b", "a", "t", "c", "h", ":", " ", "l", "u", "a", ":", " ", "o", "k">>

LOOPBACK == <<"1", "2", "7", ".", "0", ".", "0", ".", "1">>
ADDR_C1    == <<"1", "0", ".", "0", ".", "0", ".", "1">>
ADDR_NODE1 == <<"1", "0", ".", "0", ".", "0", ".", "2">>

\* Python's None, where a string was expected
NoneVal == <<"None">>

\* the default of the Spawner.ip trait, read in start
DefaultIp == <<>>

\* the default of the Spawner.port trait, read in start: 0, "unassigned"
DefaultPort == 0

\* ports the single-user server may report back
Ports == {8888, 8889}

----------------------------------------------------------------------------
(* State classifier: BatchSpawnerRegexStates.                              *)
(* A configured regular expression is a set of literal alternatives,       *)
(* anchored at the start (^(?:a|b)) or searched anywhere (a|b); the        *)
(* blank pattern "" is the pattern with no alternatives.                   *)

Blank == [anch |-> FALSE, alts |-> {}]

\* RemoteSlurmSpawner's defaults
SlurmCfg ==
    [state_pending_re |-> [anch |-> TRUE, alts |-> {S_PENDING, S_CONFIGURING}],
     state_running_re |-> [anch |-> TRUE, alts |-> {S_RUNNING, S_COMPLETING}],
     state_unknown_re |-> [anch |-> TRUE,
                           alts |-> {S_LOADERR \o S_SOCKET, S_LOADERR \o S_UNABLE}]]

\* state_unknown_re = "": "Blank indicates not used"
NoUnknownCfg == [SlurmCfg EXCEPT !.state_unknown_re = Blank]

\* a user configuration whose pending pattern also matches running texts
OverlapCfg ==
    [SlurmCfg EXCEPT !.state_pending_re = [anch |-> FALSE, alts |-> {<<"I", "N", "G">>}]]

Configs == {SlurmCfg, NoUnknownCfg, OverlapCfg}

\* self.job_status and re.search(pat, self.job_status)
Search(pat, text) ==
    /\ text # <<>>
    /\ \E a \in pat.alts : IF pat.anch THEN IsPrefix(a, text) ELSE Find(text, a) # 0

state_ispending(c, text) == Search(c.state_pending_re, text)

state_isrunning(c, text) == Search(c.state_running_re, text)

\* BatchSpawnerBase's state_isunknown, which no pattern overrides
StateIsUnknownNever(c, text) == FALSE

\* "Blank means not set and this function always returns None"
state_isunknown(c, text) ==
    IF c.state_unknown_re # Blank THEN Search(c.state_unknown_re, text) ELSE FALSE

\* a chain that tests the pending pattern first
JobStatusOfPendingFirst(c, text) ==
    IF state_ispending(c, text) THEN "PENDING"
    ELSE IF state_isrunning(c, text) THEN "RUNNING"
    ELSE IF state_isunknown(c, text) THEN "UNKNOWN"
    ELSE "NOTFOUND"

\* the if/elif chain that ends query_job_status
JobStatusOf(c, text) ==
    IF state_isrunning(c, text) THEN "RUNNING"
    ELSE IF state_ispending(c, text) THEN "PENDING"
    ELSE IF state_isunknown(c, text) THEN "UNKNOWN"
    ELSE "NOTFOUND"

Lower ==
    {"a", "b", "c", "d", "e", "f", "g", "h", "i", "j", "k", "l", "m",
     "n", "o", "p", "q", "r", "s", "t", "u", "v", "w", "x", "y", "z"}

Upper ==
    {"A", "B", "C", "D", "E", "F", "G", "H", "I", "J", "K", "L", "M",
     "N", "O", "P", "Q", "R", "S", "T", "U", "V", "W", "X", "Y", "Z"}

\* [\w_-]
WordChars == Lower \cup Upper \cup Digits \cup {"_", "-"}

\* (?:[\w_-]+\.?)+ matches all of h
IsHostText(h) ==
    /\ h # <<>>
    /\ h[1] # "."
    /\ \A i \in 1..Len(h) : h[i] \in WordChars \cup {"."}
    /\ \A i \in 1..(Len(h) - 1) : ~(h[i] = "." /\ h[i + 1] = ".")

\* re.search(r"\s+((?:[\w_-]+\.?)+)$", text).groups()[0], NoneVal when there is
\* no match: the host is what follows the last white space, if it is all
\* host text.  state_exechost_exp is left at its default "".
state_gethost(text) ==
    LET ws == {i \in 1..Len(text) : text[i] \in Whitespace}
        h  == IF ws = {} THEN <<>> ELSE SubSeq(text, Max(ws) + 1, Len(text))
    IN  IF ws # {} /\ IsHostText(h) THEN h ELSE NoneVal

\* socket.gethostbyname: the name service of the hub's host
DnsTable(h) ==
    IF h = S_C1 THEN ADDR_C1 ELSE IF h = S_NODE1 THEN ADDR_NODE1 ELSE NoneVal

----------------------------------------------------------------------------
(* Job-id parsing.  A parse result is [ok, id]; ok = FALSE is the          *)
(* exception parse_job_id raises.                                          *)

ParseError == [ok |-> FALSE, id |-> <<>>]

\* a parse_job_id that takes the whole last line for the id
ParseJobIdBaseNoSplit(output) ==
    IF ~HasLines(output) THEN ParseError
    ELSE LET id == LastLine(output)
         IN  IF IsInt(id) THEN [ok |-> TRUE, id |-> id] ELSE ParseError

\* src/batchspawner/remote_slurm.py
parse_job_id_base(output) ==
    IF ~HasLines(output) THEN ParseError
    ELSE LET id == SplitFirst(LastLine(output), <<";">>)
         IN  IF IsInt(id) THEN [ok |-> TRUE, id |-> id] ELSE ParseError

\* src/remote_slurm_spawner/remote_slurm_spawner.py
parse_job_id_remote(output) ==
    IF ~HasLines(output) THEN ParseError
    ELSE LET o1 == LastLine(output)
             o2 == Strip(o1, {"\n"})
             o3 == Strip(o2, {"\\", "n"})
             o4 == Strip(o3, {"\\", "\n"})
             o5 == RemoveAll(o4, <<"\\", "n">>)
             o6 == RemoveAll(o5, <<"'">>)
             o7 == RemoveAll(o6, <<"b">>)
             id == SplitFirst(o7, <<";">>)
         IN  IF IsInt(id) THEN [ok |-> TRUE, id |-> id] ELSE ParseError

----------------------------------------------------------------------------
(* The environment: what an external command can do.                       *)
(* A response is [kind, out, err]: out is the list of lines written to     *)
(* stdout (each with its newline), err the text written to stderr.         *)
(*   "ok"            the command ran and exited 0                          *)
(*   "nonzero"       the command ran and exited non-zero                   *)
(*   "killed"        local only: communicate() raised, the process was     *)
(*                   killed and its output drained                         *)
(*   "drain_timeout" local only: as "killed", but the drain timed out      *)
(*   "exception"     the command could not be run (local: the clean-up     *)
(*                   raised; remote: reading the password file or          *)
(*                   ssh.connect raised, no session was established)       *)
(*   "session_error" remote only: ssh.connect returned, then exec_command  *)
(*                   or reading its output raised                          *)

Resp(k, o, e) == [kind |-> k, out |-> o, err |-> e]

\* the resource manager commands of the lifecycle
RmCommands == {"submit", "query", "cancel"}

\* how controller v runs command c: "local" through run_command (a
\* subprocess of the hub), "ssh" through a paramiko session.  The remote
\* controller overrides submit_batch_script and query_job_status; it
\* inherits cancel_batch_job, which calls run_command.
transport(v, c) ==
    IF v = "remote" /\ c \in {"submit", "query"} THEN "ssh" ELSE "local"

\* squeue -h -j {job_id} -o '%T %B'
QueryOutputs ==
    { <<>>,
      <<S_PENDING \o SP \o S_NA \o NL>>,
      <<S_RUNNING \o SP \o S_C1 \o NL>>,
      <<S_RUNNING \o SP \o S_NODE1 \o NL>>,
      <<S_COMPLETED \o SP \o S_C1 \o NL>>,
      <<S_LOADERR \o S_UNABLE \o NL>> }

QueryErrors == {S_LOADERR \o S_UNABLE \o NL, S_LOADERR \o S_INVALID \o NL}

QueryResponses(v) ==
    {Resp("ok", o, <<>>) : o \in QueryOutputs}
    \cup {Resp("nonzero", <<>>, e) : e \in QueryErrors}
    \cup {Resp("exception", <<>>, <<>>)}
    \cup (IF transport(v, "query") = "local"
          THEN {Resp("killed", <<>>, e) : e \in QueryErrors}
               \cup {Resp("drain_timeout", <<>>, <<>>)}
          ELSE {Resp("session_error", <<>>, <<>>)})

\* sbatch --parsable
SubmitOutputs ==
    { <<>>,
      <<<<"2", "0", "9", "\n">>>>,
      <<<<"2", "0", "9", ";", "h", "p", "c", "\n">>>>,
      <<<<"S", "u", "b", "m", "i", "t", "t", "e", "d", " ", "b", "a", "t", "c",
          "h", " ", "j", "o", "b", " ", "2", "0", "9", "\n">>>>,
      <<<<"s", "b", "a", "t", "c", "h", ":", " ", "l", "u", "a", ":", " ", "o",
          "k", "\n">>, <<"7", "\n">>>> }

SubmitResponses(v) ==
    {Resp("ok", o, <<>>) : o \in SubmitOutputs}
    \cup {Resp("nonzero", <<>>, S_INVALID \o NL), Resp("exception", <<>>, <<>>)}
    \cup (IF transport(v, "submit") = "local"
          THEN {Resp("killed", <<>>, <<>>), Resp("drain_timeout", <<>>, <<>>)}
          ELSE {Resp("session_error", <<>>, <<>>)})

\* scancel {job_id}: always a local subprocess
CancelResponses ==
    {Resp("ok", <<>>, <<>>), Resp("nonzero", <<>>, S_INVALID \o NL),
     Resp("killed", <<>>, <<>>), Resp("drain_timeout", <<>>, <<>>),
     Resp("exception", <<>>, <<>>)}

\* the ssh tunnel command of start: subprocess.Popen + communicate(timeout=15).
\*   "ok"             the forward is set up
\*   "nonzero"        the command ran and ssh did not set up the forward
\*                    (it exited non-zero: refused, port in use, no sshpass)
\*   "TimeoutExpired" communicate raised after its 15 seconds
\*   "OSError"        Popen raised, the shell could not be run
TunnelOutcomes == {"ok", "nonzero", "TimeoutExpired", "OSError"}

\* the exception the tunnel command's try block re-raises ("" if none): the
\* return code of the command is not looked at
tunnel_raises(t) == IF t \in {"TimeoutExpired", "OSError"} THEN t ELSE ""

\* a tunnel command that forwards to the port trait's default
TunnelCmdDefaultRemotePort(i, p) == [lport |-> p, host |-> i, rport |-> DefaultPort]

\* the three %s of "-L %s:%s:%s": local port, remote host, remote port
tunnel_cmd(i, p) == [lport |-> p, host |-> i, rport |-> p]

\* "{cmd} exit status {returncode}: {eout}", with the command abbreviated
S_EXIT ==
    <<"c", "m", "d", " ", "e", "x", "i", "t", " ", "s", "t", "a", "t", "u", "s",
      " ", "-", "9", ":", " ">>

\* a run_command whose RuntimeError carries no text
RunCommandDropsStderr(r) ==
    IF r.kind = "ok"
      THEN [res |-> "return", val |-> Strip(Concat(r.out), Whitespace)]
    ELSE IF r.kind \in {"nonzero", "killed"}
      THEN [res |-> "RuntimeError", val |-> <<>>]
    ELSE IF r.kind = "drain_timeout"
      THEN [res |-> "return", val |-> <<>>]
    ELSE [res |-> "Exception", val |-> <<>>]

\* BatchSpawnerBase.run_command: [res, val] where res is "return" (val the
\* returned text), "RuntimeError" (val its args[0]) or "Exception"
run_command(r) ==
    IF r.kind = "ok"
      THEN [res |-> "return", val |-> Strip(Concat(r.out), Whitespace)]
    ELSE IF r.kind = "nonzero"
      THEN [res |-> "RuntimeError", val |-> Strip(r.err, Whitespace)]
    ELSE IF r.kind = "killed"
      THEN [res |-> "RuntimeError", val |-> S_EXIT \o Strip(r.err, Whitespace)]
    ELSE IF r.kind = "drain_timeout"
      THEN [res |-> "return", val |-> <<>>]
    ELSE [res |-> "Exception", val |-> <<>>]

----------------------------------------------------------------------------
(* Submission, status query, persistence.                                  *)

\* the parse_job_id of controller v
parse_job_id(v, output) ==
    IF v = "base" THEN parse_job_id_base(output) ELSE parse_job_id_remote(output)

\* ssh sessions a remote submit or query leaves open when it is answered by
\* r: ssh.close() is the last statement of the success path only, it is in
\* no finally clause and in no except clause
sessions_left_open(v, r) == IF v = "remote" /\ r.kind = "session_error" THEN 1 ELSE 0

\* self.job_id after submit_batch_script, the exception it lets escape ("" if
\* none) and the text it handed to parse_job_id (NoneVal if it did not get
\* there).  A parse failure is caught and leaves job_id = "".
submit_batch_script(v, id, r) ==
    IF v = "base"
    THEN LET rc == run_command(r)
         IN  IF rc.res = "return"
             THEN LET p == parse_job_id(v, rc.val)
                  IN  [err |-> "", job_id |-> IF p.ok THEN p.id ELSE <<>>,
                       out |-> rc.val]
             ELSE [err |-> rc.res, job_id |-> id, out |-> NoneVal]
    ELSE IF r.kind \in {"exception", "session_error"}
         THEN [err |-> "Exception", job_id |-> id, out |-> NoneVal]
         ELSE LET o == BytesRepr(Concat(r.out))
                  p == parse_job_id(v, o)
              IN  [err |-> "", job_id |-> IF p.ok THEN p.id ELSE <<>>, out |-> o]

\* out.replace("[", "").replace("'", "").split(" n")[0].split("\\n")[0]
\* applied to str(ssh_stdout.readlines())
remote_status_text(lines) ==
    LET o1 == RemoveAll(ListRepr(lines), <<"[">>)
        o2 == RemoveAll(o1, <<"'">>)
        o3 == SplitFirst(o2, <<" ", "n">>)
    IN  SplitFirst(o3, <<"\\", "n">>)

\* a query that reports a running job when its command could not be run
StatusTextStaleOnError(v, r) ==
    IF v = "base"
    THEN LET rc == run_command(r)
         IN  IF rc.res = "Exception" THEN S_RUNNING \o SP \o S_C1 ELSE rc.val
    ELSE IF r.kind \in {"exception", "session_error"} THEN S_RUNNING \o SP \o S_C1
    ELSE remote_status_text(r.out)

\* self.job_status as the query command's response leaves it
status_text(v, r) ==
    IF v = "base"
    THEN LET rc == run_command(r)
         IN  IF rc.res = "Exception" THEN <<>> ELSE rc.val
    ELSE IF r.kind \in {"exception", "session_error"} THEN <<>>
    ELSE remote_status_text(r.out)

\* status_text, tabulated over the responses of the model
StatusTextOf ==
    [v \in {"base", "remote"} |-> [r \in QueryResponses(v) |-> status_text(v, r)]]

\* subvars["job_id"], which the query command is formatted with
query_cmd_id(id) == id

\* a query_job_status without the test of the job id
QueryJobStatusNoGuard(v, c, id, r) ==
    LET t == StatusTextOf[v][r]
    IN  [text |-> t, status |-> JobStatusOf(c, t), ran |-> TRUE,
         cmd_id |-> query_cmd_id(id)]

\* query_job_status: the new job_status, the JobStatus returned, whether the
\* query command was executed at all, and the job id it was formatted with
query_job_status(v, c, id, r) ==
    IF id = <<>>
    THEN [text |-> <<>>, status |-> "NOTFOUND", ran |-> FALSE, cmd_id |-> <<>>]
    ELSE LET t == StatusTextOf[v][r]
         IN  [text |-> t, status |-> JobStatusOf(c, t), ran |-> TRUE,
              cmd_id |-> query_cmd_id(id)]

\* Python dicts are functions on their keys
EmptyDict == [k \in {} |-> <<>>]

\* dict.get(k, "")
DictGet(d, k) == IF k \in DOMAIN d THEN d[k] ELSE <<>>

\* a get_state that persists job_status only under the job_id test
GetStateNested(id, st) ==
    IF id # <<>>
    THEN ("job_id" :> id) @@ (IF st # <<>> THEN "job_status" :> st ELSE EmptyDict)
    ELSE EmptyDict

get_state(id, st) ==
    (IF id # <<>> THEN "job_id" :> id ELSE EmptyDict)
    @@ (IF st # <<>> THEN "job_status" :> st ELSE EmptyDict)

\* a load_state that does not restore the job id
LoadStateForgetsId(d) ==
    [job_id |-> <<>>, job_status |-> DictGet(d, "job_status")]

load_state(d) ==
    [job_id |-> DictGet(d, "job_id"), job_status |-> DictGet(d, "job_status")]

\* a clear_state that forgets to reset job_status
ClearStateKeepsStatus == [job_id |-> <<>>, job_status |-> job_status]

clear_state == [job_id |-> <<>>, job_status |-> <<>>]

----------------------------------------------------------------------------
(* Bookkeeping of calls (history, not program state).                      *)

\* the history counters of start stop counting here (its loops are unbounded)
MaxCount == 3

\* for _ in range(10)
StopAttempts == 10

\* the history counts no more sessions left open than this
MaxOpen == 1

\* counting up to a cap
Inc(n) == IF n < MaxCount THEN n + 1 ELSE n

\* the history counters of stop and poll stop counting past range(10)
IncStop(n) == IF n <= StopAttempts THEN n + 1 ELSE n

\* op: the call in progress (or the last one), and what it has done so far
NewOp(name, now, id, st) ==
    [name    |-> name,     \* "none", "start", "stop", "poll", "load", "restart", "clear"
     now     |-> now,      \* the `now` argument of stop
     id0     |-> id,       \* job_id when the call began (stop, poll, reload)
     status0 |-> st,       \* job_status when the call began (reload)
     nsubmit |-> 0,        \* submit commands executed
     nq      |-> 0,        \* calls of query_job_status
     nqcmd   |-> 0,        \* query commands executed
     ncancel |-> 0,        \* cancel commands executed
     nsleep  |-> 0,        \* gen.sleep calls
     lastq   |-> "none",   \* JobStatus returned by the last query
     lasttext |-> <<>>,    \* job_status as the last query set it
     lastkind |-> "none",  \* kind of the response to the last command
     host    |-> NoneVal,  \* what state_gethost returned
     tunnel  |-> "none",   \* "none", "ok" or the exception of the tunnel command
     tun_host |-> <<>>,    \* remote host of the tunnel command
     tun_lport |-> 0,      \* local port of the tunnel command
     tun_rport |-> 0,      \* remote port of the tunnel command
     qid     |-> <<>>,     \* job id in the last query command executed
     out     |-> NoneVal,  \* text the submit handed to parse_job_id
     open    |-> 0,        \* ssh sessions this call opened and did not close
     persisted |-> <<>>,   \* poll: the job id persisted by the reload it follows
     again   |-> FALSE]    \* poll: it follows a poll that returned 1

\* ret: how the last call ended
NoRet == [outcome |-> "none", err |-> "", ip |-> <<>>, port |-> 0, poll |-> "none"]

Returned == [NoRet EXCEPT !.outcome = "return"]

Raised(e) == [NoRet EXCEPT !.outcome = "raise", !.err = e]

\* op after a call of query_job_status whose result is q, answered by r
Queried(o, q, r) ==
    [o EXCEPT !.nq = IF o.name = "start" THEN Inc(@) ELSE IncStop(@),
              !.nqcmd = IF ~q.ran THEN @
                        ELSE IF o.name = "start" THEN Inc(@) ELSE IncStop(@),
              !.lastq = q.status, !.lasttext = q.text,
              !.lastkind = IF q.ran THEN r.kind ELSE "none",
              !.qid = IF q.ran THEN q.cmd_id ELSE @,
              !.open = IF q.ran THEN Min({@ + sessions_left_open(variant, r), MaxOpen}) ELSE @]

ErrSubmit == "Jupyter batch job submission failure (no jobid in output)"

ErrDied == "The Jupyter batch job has disappeared while pending in the queue or died immediately after starting."

----------------------------------------------------------------------------
(* The event loop.  All coroutines of the hub (the start, stop and poll of  *)
(* every controller, and progress()) run on one thread: another coroutine   *)
(* runs only while the running one is suspended in an `await` that really   *)
(* suspends.                                                               *)

\* what the call of controller v is waiting for at position p, when the port
\* trait is pt: an external command, a sleep, or nothing
waiting_on(v, p, pt) ==
    IF p = "start_submit" THEN "submit"
    ELSE IF p \in {"start_query", "stop_query"} THEN "query"
    ELSE IF p \in {"start_sleep", "stop_sleep"} THEN "sleep"
    ELSE IF p = "stop_cancel" THEN "cancel"
    ELSE IF p = "start_wait_port"
         THEN (IF pt = 0 THEN "sleep" ELSE IF v = "remote" THEN "tunnel" ELSE "none")
    ELSE "none"

\* whether controller v is suspended while it waits for w.  gen.sleep and
\* run_command (asyncio.create_subprocess_shell, proc.communicate) are
\* awaited; the remote submit and query call paramiko (connect, exec_command,
\* read) and the tunnel command calls subprocess.Popen(...).communicate(
\* timeout=15) directly in the coroutine, which holds the thread until the
\* command is over.
yields(v, w) ==
    IF w = "sleep" THEN TRUE
    ELSE IF w = "cancel" THEN TRUE
    ELSE IF w \in {"submit", "query"} THEN v = "base"
    ELSE FALSE

\* the event loop can run another coroutine now
LoopFree == pc # "idle" /\ yields(variant, waiting_on(variant, pc, port))

\* a step of this controller's start, stop or poll (or of the hub on it):
\* the hub stops iterating progress() when the spawn is over
Scheduled ==
    /\ other' = FALSE
    /\ prog' = IF pc' = "idle" THEN "none" ELSE prog

\* a coroutine of another controller instance takes its next step
OtherStep ==
    /\ LoopFree
    /\ ~other
    /\ other' = TRUE
    /\ UNCHANGED <<variant, cfg, job_id, job_status, ip, port, pc, loop_i, op, ret, prog>>

MsgQueued == "Pending in queue..."

MsgRunning == "Cluster job running... waiting to connect"

MsgUnknown == "Unknown status..."

\* the message progress() yields for the status text: the pending pattern is
\* tested first
progress_msg(c, text) ==
    IF state_ispending(c, text) THEN MsgQueued
    ELSE IF state_isrunning(c, text) THEN MsgRunning
    ELSE MsgUnknown

\* progress() has returned
ProgressEnded == prog = MsgRunning

\* one round of the `while True` of progress(), which the hub iterates while
\* the spawn is pending: yield the message, return or sleep
ProgressStep ==
    /\ op.name = "start"
    /\ LoopFree
    /\ ~ProgressEnded
    /\ prog' = progress_msg(cfg, job_status)
    /\ UNCHANGED <<variant, cfg, job_id, job_status, ip, port, pc, loop_i, op, ret, other>>

----------------------------------------------------------------------------
(* Start.                                                                  *)

Init ==
    /\ variant \in {"base", "remote"}
    /\ cfg \in Configs
    /\ job_id = <<>>
    /\ job_status = <<>>
    /\ ip = DefaultIp
    /\ port = DefaultPort
    /\ pc = "idle"
    /\ loop_i = 0
    /\ op = NewOp("none", FALSE, <<>>, <<>>)
    /\ ret = NoRet
    /\ prog = "none"
    /\ other = FALSE

\* start is entered: ip and port are reset to the traits' defaults.  The
\* caller starts a controller once per job (single flight): job_id is "".
StartBegin ==
    /\ pc = "idle"
    /\ job_id = <<>>
    /\ ip' = DefaultIp
    /\ port' = DefaultPort
    /\ pc' = "start_submit"
    /\ op' = NewOp("start", FALSE, <<>>, <<>>)
    /\ ret' = NoRet
    /\ UNCHANGED <<variant, cfg, job_id, job_status, loop_i>>
    /\ Scheduled

\* a start that goes on to the status loop without a job id
NoJobIdNever(id) == FALSE

\* if len(self.job_id) == 0
NoJobId(id) == Len(id) = 0

\* await self.submit_batch_script(), then the check of len(self.job_id)
StartSubmit(r) ==
    /\ pc = "start_submit"
    /\ LET s == submit_batch_script(variant, job_id, r)
       IN  /\ job_id' = s.job_id
           /\ op' = [op EXCEPT !.nsubmit = Inc(@), !.lastkind = r.kind,
                               !.out = s.out,
                               !.open = sessions_left_open(variant, r)]
           /\ IF s.err # ""
              THEN pc' = "idle" /\ ret' = Raised(s.err)
              ELSE IF NoJobId(s.job_id)
              THEN pc' = "idle" /\ ret' = Raised(ErrSubmit)
              ELSE pc' = "start_query" /\ ret' = ret
    /\ UNCHANGED <<variant, cfg, job_status, ip, port, loop_i>>
    /\ Scheduled

\* a status loop without the `elif status == JobStatus.UNKNOWN` branch
StartOnNoUnknown(status) ==
    IF status = "RUNNING" THEN "break"
    ELSE IF status = "PENDING" THEN "sleep"
    ELSE "raise"

\* the if/elif chain of the status loop of start: where a status leads
StartOn(status) ==
    IF status = "RUNNING" THEN "break"
    ELSE IF status = "PENDING" THEN "sleep"
    ELSE IF status = "UNKNOWN" THEN "sleep"
    ELSE "raise"

\* one round of `while True`: the query and the branch on its status
StartQuery(r) ==
    /\ pc = "start_query"
    /\ LET q == query_job_status(variant, cfg, job_id, r)
       IN  /\ op' = Queried(op, q, r)
           /\ IF StartOn(q.status) = "break"
              THEN /\ pc' = "start_gethost"
                   /\ job_id' = job_id /\ job_status' = q.text /\ ret' = ret
              ELSE IF StartOn(q.status) = "sleep"
              THEN /\ pc' = "start_sleep"
                   /\ job_id' = job_id /\ job_status' = q.text /\ ret' = ret
              ELSE /\ pc' = "idle"
                   /\ job_id' = clear_state.job_id
                   /\ job_status' = clear_state.job_status
                   /\ ret' = Raised(ErrDied)
    /\ UNCHANGED <<variant, cfg, ip, port, loop_i>>
    /\ Scheduled

\* a status loop that submits again after each sleep
SleepResumesAtSubmit == "start_submit"

\* the sleep is the last statement of `while True`: the next round begins
\* with the status query
SleepResumesAt == "start_query"

\* await gen.sleep(self.startup_poll_interval) in the status loop; the
\* single-user server may report its port meanwhile
StartSleep(p) ==
    /\ pc = "start_sleep"
    /\ port' = p
    /\ pc' = SleepResumesAt
    /\ op' = [op EXCEPT !.nsleep = Inc(@)]
    /\ UNCHANGED <<variant, cfg, job_id, job_status, ip, loop_i, ret>>
    /\ Scheduled

\* self.ip = self.state_gethost().  ip is a Unicode trait: assigning None
\* raises TraitError.  The remote controller passes the match to
\* socket.gethostbyname, which raises TypeError for None and gaierror when
\* the name does not resolve (resolves = FALSE).
StartGetHost(resolves) ==
    /\ pc = "start_gethost"
    /\ LET h == state_gethost(job_status)
           e == IF variant = "base"
                THEN (IF h = NoneVal THEN "TraitError" ELSE "")
                ELSE (IF h = NoneVal THEN "TypeError"
                      ELSE IF ~resolves \/ DnsTable(h) = NoneVal THEN "gaierror"
                      ELSE "")
       IN  /\ op' = [op EXCEPT !.host = h]
           /\ IF e # ""
              THEN pc' = "idle" /\ ret' = Raised(e) /\ ip' = ip
              ELSE /\ pc' = "start_wait_port"
                   /\ ret' = ret
                   /\ ip' = IF variant = "base" THEN h ELSE DnsTable(h)
    /\ UNCHANGED <<variant, cfg, job_id, job_status, port, loop_i>>
    /\ Scheduled

\* a start that does not wait for the port
WaitsForPortNever(p) == FALSE

\* while self.port == 0
WaitsForPort(p) == p = 0

\* one round of `while self.port == 0`: sleep, then the port may be known
StartWaitPort(p) ==
    /\ pc = "start_wait_port"
    /\ WaitsForPort(port)
    /\ port' = p
    /\ op' = [op EXCEPT !.nsleep = Inc(@)]
    /\ UNCHANGED <<variant, cfg, job_id, job_status, ip, pc, loop_i, ret>>
    /\ Scheduled

\* the port is known: the base controller returns (ip, port); the remote one
\* runs the tunnel command, and returns ("127.0.0.1", port) unless the
\* command's try block raised
StartFinish(t) ==
    /\ pc = "start_wait_port"
    /\ ~WaitsForPort(port)
    /\ pc' = "idle"
    /\ IF variant = "base"
       THEN /\ ip' = ip
            /\ op' = op
            /\ ret' = [Returned EXCEPT !.ip = ip, !.port = port]
       ELSE /\ op' = [op EXCEPT !.tunnel = t,
                                !.tun_host = tunnel_cmd(ip, port).host,
                                !.tun_lport = tunnel_cmd(ip, port).lport,
                                !.tun_rport = tunnel_cmd(ip, port).rport]
            /\ IF tunnel_raises(t) = ""
               THEN /\ ip' = LOOPBACK
                    /\ ret' = [Returned EXCEPT !.ip = LOOPBACK, !.port = port]
               ELSE ip' = ip /\ ret' = Raised(tunnel_raises(t))
    /\ UNCHANGED <<variant, cfg, job_id, job_status, port, loop_i>>
    /\ Scheduled

\* "We are called with a timeout, and if the timeout expires this function
\* will be interrupted at the next yield"
StartTimeout ==
    /\ pc \in {"start_sleep", "start_wait_port"}
    /\ pc' = "idle"
    /\ ret' = Raised("TimeoutError")
    /\ UNCHANGED <<variant, cfg, job_id, job_status, ip, port, loop_i, op>>
    /\ Scheduled

----------------------------------------------------------------------------
(* Stop.                                                                   *)

\* What the statements of stop that precede `await self.cancel_batch_job()`
\* raise ("" if nothing).  The remote controller begins with
\*     self.log.info("Stopping ssh tunnel on port: " + self.port)
\* and port is an integer (start compares it with 0 and logs str(self.port)):
\* str + int raises TypeError before the tunnel is closed or the job is
\* cancelled.
stop_prologue(v) == IF v = "remote" THEN "TypeError" ELSE ""

StopBegin(now) ==
    /\ pc = "idle"
    /\ op' = NewOp("stop", now, job_id, <<>>)
    /\ IF stop_prologue(variant) # ""
       THEN pc' = "idle" /\ ret' = Raised(stop_prologue(variant))
       ELSE pc' = "stop_cancel" /\ ret' = NoRet
    /\ UNCHANGED <<variant, cfg, job_id, job_status, ip, port, loop_i>>
    /\ Scheduled

\* What await self.cancel_batch_job() raises ("" if it returns): the cancel
\* command is formatted with self.job_id, whatever it is, and given to
\* run_command, whose exceptions are not caught.
cancel_batch_job(r) ==
    LET rc == run_command(r) IN IF rc.res = "return" THEN "" ELSE rc.res

\* a stop that ignores its `now` argument
ReturnsAfterCancelNever(now) == FALSE

\* `if now: return` after the cancel command
ReturnsAfterCancel(now) == now

\* await self.cancel_batch_job(); if now: return
StopCancel(r) ==
    /\ pc = "stop_cancel"
    /\ op' = [op EXCEPT !.ncancel = Inc(@), !.lastkind = r.kind]
    /\ LET e == cancel_batch_job(r)
       IN  IF e # ""
           THEN pc' = "idle" /\ ret' = Raised(e) /\ loop_i' = loop_i
           ELSE IF ReturnsAfterCancel(op.now)
           THEN pc' = "idle" /\ ret' = Returned /\ loop_i' = loop_i
           ELSE pc' = "stop_query" /\ ret' = ret /\ loop_i' = 0
    /\ UNCHANGED <<variant, cfg, job_id, job_status, ip, port>>
    /\ Scheduled

\* the statuses on which the confirmation loop of stop goes on
StopWaitsOn == {"RUNNING", "UNKNOWN"}

\* one round of `for _ in range(10)`: the query and the test of its status
StopQuery(r) ==
    /\ pc = "stop_query"
    /\ LET q == query_job_status(variant, cfg, job_id, r)
       IN  /\ op' = Queried(op, q, r)
           /\ job_status' = q.text
           /\ IF q.status \notin StopWaitsOn
              THEN pc' = "idle" /\ ret' = Returned
              ELSE pc' = "stop_sleep" /\ ret' = ret
    /\ UNCHANGED <<variant, cfg, job_id, ip, port, loop_i>>
    /\ Scheduled

\* a confirmation loop that runs one round too many
RangeDoneLate(i) == i >= StopAttempts

\* range(10) is exhausted after round i
RangeDone(i) == i + 1 >= StopAttempts

\* await gen.sleep(1.0), then the next round, or the warning and the return
StopSleep ==
    /\ pc = "stop_sleep"
    /\ op' = [op EXCEPT !.nsleep = IncStop(@)]
    /\ IF RangeDone(loop_i)
       THEN pc' = "idle" /\ ret' = Returned /\ loop_i' = loop_i
       ELSE pc' = "stop_query" /\ ret' = ret /\ loop_i' = loop_i + 1
    /\ UNCHANGED <<variant, cfg, job_id, job_status, ip, port>>
    /\ Scheduled

----------------------------------------------------------------------------
(* Poll, persistence, clearing.                                            *)

\* a poll that takes an unreachable resource manager for a dead job
PollAliveNoUnknown == {"PENDING", "RUNNING"}

\* the statuses on which poll reports the job alive (returns None)
PollAlive == {"PENDING", "RUNNING", "UNKNOWN"}

\* a poll that takes the job to be job 209 whenever it is alive
PollRenamesJob(v, c, id, r) ==
    LET q == query_job_status(v, c, id, r)
    IN  IF q.status \in PollAlive
        THEN [value |-> "None", job_id |-> S_209, job_status |-> q.text]
        ELSE [value |-> "1", job_id |-> clear_state.job_id,
              job_status |-> clear_state.job_status]

\* poll on a controller with job id `id`, the query answered by r: the
\* value returned ("None" or "1") and the job_id and job_status left behind
poll(v, c, id, r) ==
    LET q == query_job_status(v, c, id, r)
    IN  IF q.status \in PollAlive
        THEN [value |-> "None", job_id |-> id, job_status |-> q.text]
        ELSE [value |-> "1", job_id |-> clear_state.job_id,
              job_status |-> clear_state.job_status]

\* the job id of the persisted state this controller was just constructed
\* from ("" when the last call was not a reload): what the old controller's
\* get_state held, or what load_state found in the hub's database
PersistedId ==
    IF op.name = "restart" THEN op.id0
    ELSE IF op.name = "load" THEN job_id
    ELSE <<>>

Poll(r) ==
    /\ pc = "idle"
    /\ LET q == query_job_status(variant, cfg, job_id, r)
           o == poll(variant, cfg, job_id, r)
       IN  /\ op' = Queried([NewOp("poll", FALSE, job_id, <<>>)
                                 EXCEPT !.persisted = PersistedId,
                                        !.again = (op.name = "poll" /\ ret.poll = "1")],
                         q, r)
           /\ job_id' = o.job_id
           /\ job_status' = o.job_status
           /\ ret' = [Returned EXCEPT !.poll = o.value]
    /\ UNCHANGED <<variant, cfg, ip, port, pc, loop_i>>
    /\ Scheduled

\* persisted states the hub may hand to load_state
JobIds == {<<"2", "0", "9">>, <<"7">>}

StatusTexts ==
    {S_PENDING, S_RUNNING \o SP \o S_C1, S_COMPLETED \o SP \o S_C1,
     S_LOADERR \o S_UNABLE}

StateDicts ==
    {EmptyDict}
    \cup {"job_id" :> i : i \in JobIds}
    \cup {"job_status" :> t : t \in StatusTexts}
    \cup {("job_id" :> i) @@ ("job_status" :> t) : i \in JobIds, t \in StatusTexts}

\* a newly constructed controller is given the persisted state d
Reload(name, d) ==
    /\ op' = NewOp(name, FALSE, job_id, job_status)
    /\ job_id' = load_state(d).job_id
    /\ job_status' = load_state(d).job_status
    /\ ip' = DefaultIp
    /\ port' = DefaultPort
    /\ loop_i' = 0
    /\ ret' = Returned
    /\ UNCHANGED <<variant, cfg, pc>>
    /\ Scheduled

\* the hub constructs the controller with a state from its database
LoadState(d) == pc = "idle" /\ op.name = "none" /\ Reload("load", d)

\* the hub restarts: get_state() of this controller, load_state() on a new one
Restart == pc = "idle" /\ Reload("restart", get_state(job_id, job_status))

\* the hub calls clear_state() (it does after a stop)
ClearState ==
    /\ pc = "idle"
    /\ op' = NewOp("clear", FALSE, <<>>, <<>>)
    /\ job_id' = clear_state.job_id
    /\ job_status' = clear_state.job_status
    /\ ret' = Returned
    /\ UNCHANGED <<variant, cfg, ip, port, pc, loop_i>>
    /\ Scheduled

----------------------------------------------------------------------------

Next ==
    \/ StartBegin
    \/ \E r \in SubmitResponses(variant) : StartSubmit(r)
    \/ \E r \in QueryResponses(variant) : StartQuery(r)
    \/ \E p \in {port} \cup Ports : StartSleep(p)
    \/ \E b \in BOOLEAN : StartGetHost(b)
    \/ \E p \in {0} \cup Ports : StartWaitPort(p)
    \/ \E t \in TunnelOutcomes : StartFinish(t)
    \/ StartTimeout
    \/ \E now \in BOOLEAN : StopBegin(now)
    \/ \E r \in CancelResponses : StopCancel(r)
    \/ \E r \in QueryResponses(variant) : StopQuery(r)
    \/ StopSleep
    \/ \E r \in QueryResponses(variant) : Poll(r)
    \/ \E d \in StateDicts : LoadState(d)
    \/ Restart
    \/ ClearState
    \/ ProgressStep
    \/ OtherStep

Spec == Init /\ [][Next]_vars

\* every call in progress gets to take its next step
FairSpec == Spec /\ WF_vars(Next)

----------------------------------------------------------------------------
(* Shorthands for the claims.                                              *)

StartPolling == pc \in {"start_sleep", "start_query"}

\* the start in `op` was abandoned by its caller, it did not end by itself
TimedOut == pc = "idle" /\ ret.outcome = "raise" /\ ret.err = "TimeoutError"

Finished(name) == op.name = name /\ pc = "idle"

CancelFailed == op.lastkind \in {"nonzero", "killed", "exception"}

----------------------------------------------------------------------------
(* C1..C10                                                                 *)

\* C1: in start, a status query classified neither RUNNING, PENDING nor
\* UNKNOWN ends start with the "disappeared ... or died immediately" error,
\* and job_id and job_status are then both empty.
C1_DiedClearsState ==
    (op.name = "start" /\ op.lastq = "NOTFOUND")
        => /\ pc = "idle"
           /\ ret.outcome = "raise"
           /\ ret.err = ErrDied
           /\ job_id = <<>>
           /\ job_status = <<>>

\* C1 witness: the first status query of a start answered "COMPLETED c1"
C1_Witness ==
    /\ Finished("start")
    /\ op.nq = 1
    /\ op.lasttext = S_COMPLETED \o SP \o S_C1
    /\ ret.err = ErrDied

\* C2 as claimed: whenever start returns, it returns the host extracted from
\* the RUNNING status text.
C2_ReturnsExtractedHost ==
    (Finished("start") /\ ret.outcome = "return") => ret.ip = op.host

\* C2 amended: start never ends by itself while the last status is PENDING or
\* UNKNOWN, however many rounds it has polled; at the first RUNNING status it
\* leaves the status loop for good and extracts the host from that status
\* text; when it returns, the base controller returns the extracted host and
\* the remote controller returns the loopback address, after a tunnel
\* command to the address the extracted host resolves to.
C2_PollsUntilRunning ==
    /\ (op.name = "start" /\ op.lastq \in {"PENDING", "UNKNOWN"})
           => (StartPolling \/ TimedOut)
    /\ (op.name = "start" /\ op.lastq = "RUNNING") => ~StartPolling
    /\ pc \in {"start_gethost", "start_wait_port"}
           => (op.lastq = "RUNNING" /\ job_status = op.lasttext)
    /\ (Finished("start") /\ ret.outcome = "return")
           => /\ op.lastq = "RUNNING"
              /\ op.host = state_gethost(op.lasttext)
              /\ op.host # NoneVal
              /\ IF variant = "base"
                 THEN ret.ip = op.host
                 ELSE /\ ret.ip = LOOPBACK
                      /\ op.tunnel # "none"
                      /\ tunnel_raises(op.tunnel) = ""
                      /\ op.tun_host = DnsTable(op.host)

\* C2 witness: start returned after more PENDING/UNKNOWN rounds than the
\* history counts, with a host extracted from "RUNNING c1"
C2_Witness ==
    /\ Finished("start")
    /\ ret.outcome = "return"
    /\ op.nq = MaxCount
    /\ op.nsleep = MaxCount
    /\ op.host = S_C1

\* C3 as claimed: a stop whose cancel command failed returns normally.
C3_CancelFailureSwallowed ==
    (Finished("stop") /\ op.ncancel > 0 /\ op.nq = 0 /\ CancelFailed)
        => ret.outcome = "return"

\* C4 as claimed, for the remote controller: stop issues the cancel command
\* and returns normally, whatever became of the tunnel.
C4_RemoteStopCancels ==
    (variant = "remote" /\ Finished("stop"))
        => (op.ncancel > 0 /\ ret.outcome = "return")

\* C5 as claimed: a stop entered with an empty job_id executes no cancel
\* command and returns normally.
C5_NoCancelWithoutId ==
    (op.name = "stop" /\ op.id0 = <<>>)
        => /\ op.ncancel = 0
           /\ pc = "idle" => ret.outcome = "return"

\* C6: stop(now=True) never queries the status and never sleeps: it is over
\* as soon as its cancel command has been run.
C6_ImmediateStop ==
    (op.name = "stop" /\ op.now)
        => /\ op.nq = 0
           /\ op.nsleep = 0
           /\ pc \in {"idle", "stop_cancel"}
           /\ op.ncancel > 0 => pc = "idle"
           /\ (pc = "idle" /\ op.ncancel > 0 /\ ~CancelFailed) => ret.outcome = "return"

\* C6 witness: stop(now=True) returned after its cancel command, on a job
\* last seen RUNNING
C6_Witness ==
    /\ Finished("stop")
    /\ op.now
    /\ op.ncancel = 1
    /\ ret.outcome = "return"
    /\ job_id # <<>>
    /\ JobStatusOf(cfg, job_status) = "RUNNING"

\* C7: stop(now=False) queries the status at most 10 times after the cancel,
\* goes on only while the status is RUNNING or UNKNOWN, returns at the first
\* other status, and returns normally when all 10 were RUNNING or UNKNOWN.
C7_StopConfirmationBounded ==
    (op.name = "stop" /\ ~op.now)
        => /\ op.nq <= StopAttempts
           /\ op.nsleep <= op.nq
           /\ pc \in {"stop_query", "stop_sleep"} => loop_i < StopAttempts
           /\ pc = "stop_query" => op.nq = loop_i
           /\ pc = "stop_sleep" => (op.nq = loop_i + 1 /\ op.lastq \in {"RUNNING", "UNKNOWN"})
           /\ (op.nq > 0 /\ op.lastq \notin {"RUNNING", "UNKNOWN"})
                  => (pc = "idle" /\ ret.outcome = "return")
           /\ op.nsleep = StopAttempts => (pc = "idle" /\ ret.outcome = "return")

\* C7 witness: all 10 queries said RUNNING and stop returned
C7_Witness ==
    /\ Finished("stop")
    /\ ~op.now
    /\ op.nq = StopAttempts
    /\ op.nsleep = StopAttempts
    /\ op.lastq = "RUNNING"
    /\ ret.outcome = "return"

\* C8: poll returns 1 exactly when its status query says NOTFOUND, and then
\* job_id and job_status are empty; on PENDING, RUNNING and UNKNOWN it
\* returns None and job_id is what it was.
C8_PollSignalsNotFound ==
    op.name = "poll"
        => /\ ret.poll = "1" <=> op.lastq = "NOTFOUND"
           /\ ret.poll = "None" <=> op.lastq \in {"PENDING", "RUNNING", "UNKNOWN"}
           /\ ret.poll = "1" => (job_id = <<>> /\ job_status = <<>>)
           /\ ret.poll = "None" => (job_id = op.id0 /\ job_id # <<>>)

\* C8 witness: a poll whose query command ran and was answered
\* "COMPLETED c1" cleared a job id
C8_Witness ==
    /\ op.name = "poll"
    /\ op.id0 # <<>>
    /\ op.lasttext = S_COMPLETED \o SP \o S_C1
    /\ ret.poll = "1"

\* C9 as claimed: a status query whose command could not be run or read is
\* classified UNKNOWN and does not clear the job id.
C9_TransportFailureIsUnknown ==
    (op.name \in {"start", "poll"} /\ op.nqcmd > 0 /\ op.lastkind = "exception")
        => (op.lastq = "UNKNOWN" /\ job_id # <<>>)

\* C9 amended: a status text that matches the configured unknown pattern is
\* never classified NOTFOUND (it is UNKNOWN unless the running or pending
\* pattern matches too): start keeps polling, poll returns None and job_id
\* stays; a query whose command could not be run or read leaves an empty
\* status text, which is NOTFOUND.
C9_UnknownPatternKeepsJob ==
    /\ (op.name \in {"start", "poll"} /\ op.nqcmd > 0
            /\ cfg.state_unknown_re # Blank
            /\ Search(cfg.state_unknown_re, op.lasttext))
           => /\ op.lastq # "NOTFOUND"
              /\ (~Search(cfg.state_running_re, op.lasttext)
                      /\ ~Search(cfg.state_pending_re, op.lasttext))
                     => op.lastq = "UNKNOWN"
              /\ job_id # <<>>
              /\ op.name = "poll" => ret.poll = "None"
              /\ (op.name = "start" /\ op.lastq = "UNKNOWN") => (StartPolling \/ TimedOut)
    /\ (op.name \in {"start", "poll"} /\ op.nqcmd > 0 /\ op.lastkind = "exception")
           => (op.lasttext = <<>> /\ op.lastq = "NOTFOUND" /\ job_id = <<>>)

\* C9 witness: start is still polling after a query answered with the
\* "Unable to contact slurm controller" text
C9_Witness ==
    /\ op.name = "start"
    /\ pc = "start_sleep"
    /\ op.lasttext = S_LOADERR \o S_UNABLE
    /\ op.lastq = "UNKNOWN"
    /\ job_id # <<>>

\* C10: after get_state() and load_state() on a new controller, job_id and
\* job_status are those of the original, and poll does on the new controller
\* what it would have done on the original, for every response.
C10_StateRoundTrip ==
    op.name = "restart"
        => /\ job_id = op.id0
           /\ job_status = op.status0
           /\ load_state(get_state(op.id0, op.status0))
                  = [job_id |-> op.id0, job_status |-> op.status0]
           /\ \A r \in QueryResponses(variant) :
                  poll(variant, cfg, job_id, r) = poll(variant, cfg, op.id0, r)

\* C10 witness: a restart of a controller that held a job id and a status
C10_Witness ==
    /\ op.name = "restart"
    /\ op.id0 # <<>>
    /\ op.status0 # <<>>
    /\ job_id = op.id0
    /\ job_status = op.status0

----------------------------------------------------------------------------
(* C11..C20                                                                *)

\* C11: the first poll of a controller reloaded with a non-empty persisted
\* job id executes one query command, formatted with exactly that id; and no
\* poll and no stop ever executes a submit command, their query commands
\* carry the job id the controller held when they were called.
C11_ReloadResumesPolling ==
    /\ (op.name = "poll" /\ op.persisted # <<>>)
           => /\ op.id0 = op.persisted
              /\ op.nqcmd = 1
              /\ op.qid = op.persisted
              /\ op.nsubmit = 0
    /\ op.name \in {"poll", "stop"}
           => /\ op.nsubmit = 0
              /\ op.nqcmd > 0 => (op.qid = op.id0 /\ op.id0 # <<>>)

\* C11 witness: the poll after a reload of job id "7" queried job "7" and
\* found it alive
C11_Witness ==
    /\ op.name = "poll"
    /\ op.persisted = <<"7">>
    /\ op.qid = <<"7">>
    /\ op.nqcmd = 1
    /\ ret.poll = "None"
    /\ job_id = <<"7">>

\* C12: the JobStatus a query returns for the status text it stored is
\* RUNNING if the running pattern matches; else PENDING if the pending
\* pattern matches; else UNKNOWN if an unknown pattern is configured and
\* matches; else NOTFOUND.  A text matching both the pending and the running
\* pattern is RUNNING, and with a blank unknown pattern nothing is UNKNOWN.
C12_ClassifierPrecedence ==
    op.nq > 0
        => LET t   == op.lasttext
               run == Search(cfg.state_running_re, t)
               pen == Search(cfg.state_pending_re, t)
               unk == cfg.state_unknown_re # Blank /\ Search(cfg.state_unknown_re, t)
           IN  /\ run => op.lastq = "RUNNING"
               /\ (~run /\ pen) => op.lastq = "PENDING"
               /\ (~run /\ ~pen /\ unk) => op.lastq = "UNKNOWN"
               /\ (~run /\ ~pen /\ ~unk) => op.lastq = "NOTFOUND"
               /\ (run /\ pen) => op.lastq = "RUNNING"
               /\ cfg.state_unknown_re = Blank => op.lastq # "UNKNOWN"

\* C12 witness: under a pending pattern that matches "ING" anywhere, the
\* text "RUNNING c1" matched both patterns and was classified RUNNING
C12_Witness ==
    /\ cfg = OverlapCfg
    /\ op.nqcmd > 0
    /\ op.lasttext = S_RUNNING \o SP \o S_C1
    /\ Search(cfg.state_pending_re, op.lasttext)
    /\ Search(cfg.state_running_re, op.lasttext)
    /\ op.lastq = "RUNNING"

\* C13 as claimed: within one start, a status query follows the submit
\* command, the host is extracted after a RUNNING status, the tunnel command
\* follows the host extraction, and the remote controller returns an endpoint
\* only after the tunnel is established.
C13_StartOrder ==
    op.name = "start"
        => /\ op.nq > 0 => op.nsubmit > 0
           /\ (op.host # NoneVal \/ pc = "start_wait_port") => op.lastq = "RUNNING"
           /\ op.tunnel # "none" => op.host # NoneVal
           /\ (variant = "remote" /\ pc = "idle" /\ ret.outcome = "return")
                  => op.tunnel = "ok"

\* every endpoint start returns and every tunnel command it runs has a
\* non-zero port, and follows a RUNNING status and a host extraction
PortKnownBeforeReady ==
    /\ (Finished("start") /\ ret.outcome = "return")
           => (ret.port # 0 /\ op.lastq = "RUNNING" /\ op.host # NoneVal)
    /\ (op.name = "start" /\ op.tunnel # "none")
           => (op.tun_lport # 0 /\ op.tun_rport # 0)
    /\ (pc = "start_wait_port" /\ port = 0)
           => (op.tunnel = "none" /\ ret.outcome = "none")

\* C14: start returns no endpoint and runs no tunnel command while port is
\* 0: every endpoint returned and every tunnel command has a non-zero port,
\* and from the port loop with port 0 start only sleeps and stays in that
\* loop (or is abandoned by its caller).
C14_WaitsForPort ==
    /\ []PortKnownBeforeReady
    /\ [][(pc = "start_wait_port" /\ port = 0)
              => \/ pc' = "start_wait_port" /\ op'.nsleep >= op.nsleep
                                            /\ op'.tunnel = "none"
                 \/ TimedOut']_vars

\* C14 witness: the remote start returned port 8889 after sleeping in the
\* port loop (its only status query said RUNNING, so the sleep was there)
C14_Witness ==
    /\ Finished("start")
    /\ variant = "remote"
    /\ ret.outcome = "return"
    /\ op.nq = 1
    /\ op.nsleep > 1
    /\ ret.port = 8889

\* C15: when the remote start returns, it returns the loopback address and
\* the port of the port trait, which is both the local and the remote port
\* of the tunnel command, towards the job's host.
C15_LoopbackSamePort ==
    (variant = "remote" /\ Finished("start") /\ ret.outcome = "return")
        => /\ ret.ip = LOOPBACK
           /\ ip = LOOPBACK
           /\ ret.port = port
           /\ op.tun_rport = ret.port
           /\ op.tun_lport = op.tun_rport
           /\ op.tun_host = DnsTable(op.host)

\* C15 witness: the remote start returned 127.0.0.1:8888 after a tunnel
\* command 8888:10.0.0.1:8888
C15_Witness ==
    /\ Finished("start")
    /\ variant = "remote"
    /\ ret.outcome = "return"
    /\ ret.ip = LOOPBACK
    /\ ret.port = 8888
    /\ op.tunnel = "ok"
    /\ op.tun_host = ADDR_C1
    /\ op.tun_rport = 8888

\* C16 as claimed: a remote start whose tunnel command did not set up the
\* forward raises, it returns no endpoint.
C16_TunnelFailureIsFatal ==
    (variant = "remote" /\ Finished("start") /\ op.tunnel \notin {"none", "ok"})
        => ret.outcome = "raise"

\* C17 as claimed: the stop called after a start that failed with a job id
\* obtained (start itself runs no cancel command) gets to its cancel command,
\* and holds that job id when it does.
C17_FailedStartIsCancelled ==
    [][(/\ Finished("start")
        /\ ret.outcome = "raise"
        /\ op.nq > 0
        /\ op.ncancel = 0
        /\ op'.name = "stop")
           => /\ pc' = "stop_cancel"
              /\ op'.id0 = parse_job_id(variant, op.out).id]_vars

\* C18: a start whose submit output could not be parsed is over, with the
\* "submission failure (no jobid in output)" error, an empty job_id, no status
\* query and no tunnel command; a start whose submit output was parsed holds
\* the parsed id when it enters the status loop, and its query commands
\* carry that id.
C18_ParseFailureIsFatal ==
    (op.name = "start" /\ op.out # NoneVal)
        => LET p == parse_job_id(variant, op.out)
           IN  /\ ~p.ok => /\ pc = "idle"
                            /\ ret.outcome = "raise"
                            /\ ret.err = ErrSubmit
                            /\ job_id = <<>>
                            /\ op.nq = 0
                            /\ op.nsleep = 0
                            /\ op.tunnel = "none"
               /\ p.ok => /\ p.id # <<>>
                          /\ ret.err # ErrSubmit
                          /\ (pc = "start_query" /\ op.nq = 0) => job_id = p.id
                          /\ op.nq > 0 => (op.nqcmd > 0 /\ op.qid = p.id)
                          /\ pc # "idle" => job_id = p.id

\* C18 witness: the base start ended with the submission error on the
\* output "Submitted batch job 209"
C18_Witness ==
    /\ Finished("start")
    /\ variant = "base"
    /\ op.out = S_SUBMITTED_209
    /\ ~parse_job_id(variant, op.out).ok
    /\ ret.err = ErrSubmit
    /\ job_id = <<>>

\* the text submit_batch_script of controller v hands to parse_job_id when
\* the submit command wrote raw: the output of run_command, or str() of the
\* bytes read from the ssh channel
ParseInput(v, raw) == IF v = "base" THEN Strip(raw, Whitespace) ELSE BytesRepr(raw)

C20_SessionsClosed == op.open = 0

----------------------------------------------------------------------------
(* C21..C30                                                                *)

C22_ClearedOnTermination ==
    /\ (Finished("stop") /\ ret.outcome = "return"
            /\ op.nq > 0 /\ op.lastq \notin StopWaitsOn)
           => (job_id = <<>> /\ job_status = <<>>)
    /\ (Finished("start") /\ ret.outcome = "raise" /\ ~TimedOut)
           => (job_id = <<>> /\ job_status = <<>>)

\* C23 as claimed: a start whose job is RUNNING and whose status text gave
\* no host does not raise: it ends by returning.
C23_HostFailureNotFatal ==
    (Finished("start") /\ op.lastq = "RUNNING" /\ op.host = NoneVal)
        => ret.outcome = "return"

\* C24 as claimed: each message of progress() is the one of the canonical
\* state of the current status text ("queued" for PENDING, "running,
\* connecting" for RUNNING, "unknown" otherwise), progress() ends exactly
\* with the "running" message, and its steps change neither job_id nor
\* job_status.
C24_ProgressFollowsStatus ==
    [][(prog' # prog /\ prog' # "none")
          => /\ prog' = IF JobStatusOf(cfg, job_status) = "PENDING" THEN MsgQueued
                        ELSE IF JobStatusOf(cfg, job_status) = "RUNNING" THEN MsgRunning
                        ELSE MsgUnknown
             /\ ~ProgressEnded
             /\ job_id' = job_id
             /\ job_status' = job_status]_vars

\* C25 as claimed: the remote controller runs each resource manager command
\* (submit, status query, cancel) through an ssh session, none as a local
\* subprocess.
C25_RemoteCommandsOverSsh ==
    variant = "remote" => \A c \in RmCommands : transport(variant, c) = "ssh"

\* C26 as claimed: whenever a call of this controller is waiting for an
\* external command or for a sleep, a coroutine of another controller can
\* take its next step (or has just taken it).
C26_Cooperative ==
    (pc # "idle" /\ waiting_on(variant, pc, port) # "none")
        => (other \/ ENABLED OtherStep)

\* C27: after a status query, the JobStatus it returned is the
\* classification of the status text it stored; that text is empty when there
\* was no job id or the command could not be run or read, and otherwise the
\* text of the command's answer; job_status holds it, unless clear_state has
\* emptied it after a NOTFOUND.
C27_StatusNeverDrifts ==
    (op.name \in {"start", "stop", "poll"} /\ op.nq > 0)
        => /\ op.lastq = JobStatusOf(cfg, op.lasttext)
           /\ op.lastkind \in {"none", "exception", "session_error", "drain_timeout"}
                  => (op.lasttext = <<>> /\ op.lastq = "NOTFOUND")
           /\ op.lastkind = "ok"
                  => \E o \in QueryOutputs :
                         op.lasttext = IF variant = "base"
                                       THEN Strip(Concat(o), Whitespace)
                                       ELSE remote_status_text(o)
           /\ job_status \in {op.lasttext, <<>>}
           /\ job_status # op.lasttext => (job_id = <<>> /\ op.lastq = "NOTFOUND")

\* C27 witness: the second status query of a stop could not be run, after a
\* first one that found the job RUNNING or UNKNOWN: the status text is empty
C27_Witness ==
    /\ Finished("stop")
    /\ op.nq = 2
    /\ op.lastkind = "exception"
    /\ op.lastq = "NOTFOUND"
    /\ job_status = <<>>
    /\ job_id # <<>>

\* C28: a status query whose command failed raises nothing out of start,
\* poll or stop: the status text is empty (command not run or not read), the
\* error text of the command (base controller) or "]", what the remote
\* normalisation leaves of an empty output, and the call goes the way of the
\* classification of that text: NOTFOUND ends start with the "disappeared"
\* error, makes poll return 1 and stop return.
C28_QueryFailureSwallowed ==
    (op.name \in {"start", "stop", "poll"} /\ op.nq > 0 /\ op.nqcmd > 0
        /\ op.lastkind \notin {"ok", "none"})
        => /\ ret.err \notin {"RuntimeError", "Exception"}
           /\ op.lastkind \in {"exception", "session_error", "drain_timeout"}
                  => op.lasttext = <<>>
           /\ op.lastkind = "nonzero"
                  => IF variant = "base"
                     THEN op.lasttext \in {Strip(e, Whitespace) : e \in QueryErrors}
                     ELSE op.lasttext = <<"]">>
           /\ op.lastkind = "killed"
                  => op.lasttext \in {S_EXIT \o Strip(e, Whitespace) : e \in QueryErrors}
           /\ op.lastq = JobStatusOf(cfg, op.lasttext)
           /\ (op.name = "start" /\ op.lastq = "NOTFOUND")
                  => (pc = "idle" /\ ret.err = ErrDied)
           /\ op.name = "poll"
                  => (ret.outcome = "return" /\ (ret.poll = "1" <=> op.lastq = "NOTFOUND"))
           /\ (op.name = "stop" /\ pc = "idle") => ret.outcome = "return"

\* C28 witness: the query command of a poll exited non-zero with "Unable to
\* contact slurm controller": poll returned None and kept the job
C28_Witness ==
    /\ op.name = "poll"
    /\ op.lastkind = "nonzero"
    /\ op.lasttext = S_LOADERR \o S_UNABLE
    /\ op.lastq = "UNKNOWN"
    /\ ret.poll = "None"
    /\ job_id # <<>>

\* C29: a start runs its submit command once, before its first status
\* query, and never again, however many rounds it polls and however long it
\* waits for the port.
C29_SubmitsOnce ==
    op.name = "start"
        => /\ op.nsubmit <= 1
           /\ op.nsubmit = 0 <=> pc = "start_submit"
           /\ op.nq > 0 => op.nsubmit = 1
           /\ op.nsleep > 0 => op.nsubmit = 1

\* C29 witness: a start waiting for the port, after more status rounds and
\* sleeps than the history counts, has submitted once
C29_Witness ==
    /\ op.name = "start"
    /\ pc = "start_wait_port"
    /\ port = 0
    /\ op.nq = MaxCount
    /\ op.nsleep = MaxCount
    /\ op.nsubmit = 1

\* a poll on a controller without job id, and the poll that follows a poll
\* which returned 1, return 1 without a query command and leave job_id and
\* job_status empty
PollOnNoJob ==
    (op.name = "poll" /\ (op.again \/ op.id0 = <<>>))
        => /\ ret.poll = "1"
           /\ op.nqcmd = 0
           /\ op.open = 0
           /\ op.id0 = <<>>
           /\ job_id = <<>>
           /\ job_status = <<>>

\* C30: once a poll has returned 1, later polls return 1 again, run no
\* command and leave job_id and job_status empty: PollOnNoJob always holds,
\* and an empty job_id stays empty through every step but those of a start
\* or a load_state.
C30_TerminationAbsorbing ==
    /\ []PollOnNoJob
    /\ [][(job_id = <<>> /\ op'.name \notin {"start", "load"}) => job_id' = <<>>]_vars

\* C30 witness: a poll that follows a poll which returned 1 returned 1 again
\* without a query command
C30_Witness ==
    /\ op.name = "poll"
    /\ op.again
    /\ op.nq = 1
    /\ op.nqcmd = 0
    /\ ret.poll = "1"
    /\ job_id = <<>>

====
